---- MODULE Spec2Model ----
(***************************************************************************)
(* Bit-serial arithmetic of binary_adt/binary.py: the Bits byte encoding,  *)
(* its bit view, fulladder, adder, subtractor, multiplier and divider.     *)
(*                                                                         *)
(* A Bits object is modelled as the sequence of its bytes (index 1 is the  *)
(* byte at Python index 0).  A Python list of bits is a sequence of 0/1.   *)
(* Python's unbounded non-negative ints are naturals; the bitwise          *)
(* operators are defined digit by digit.                                   *)
(***************************************************************************)
EXTENDS Integers, Sequences, FiniteSets

\* ------------------------------------------------------------------ bounds

\* Operands 0..MaxN are drawn exhaustively.
MaxN == 33
\* Operands within MaxDelta of a width boundary (2^8, 2^16) are drawn too.
MaxDelta == 2
\* multiplier is called only when the product is below 2^MaxProductBits.
MaxProductBits == 23

\* ------------------------------------------------------- program constants

CHUNK == 8
ByteSIZE == 1
WordSIZE == 2

\* ------------------------------------------- Python's operators on naturals

\* x << k
shl(x, k) == x * (2 ^ k)

\* x >> k
shr(x, k) == x \div (2 ^ k)

RECURSIVE band(_, _)
\* x & y
band(x, y) ==
    IF x = 0 \/ y = 0 THEN 0
    ELSE (IF x % 2 = 1 /\ y % 2 = 1 THEN 1 ELSE 0) + 2 * band(x \div 2, y \div 2)

RECURSIVE bor(_, _)
\* x | y
bor(x, y) ==
    IF x = 0 THEN y
    ELSE IF y = 0 THEN x
    ELSE (IF x % 2 = 1 \/ y % 2 = 1 THEN 1 ELSE 0) + 2 * bor(x \div 2, y \div 2)

RECURSIVE bxor(_, _)
\* x ^ y
bxor(x, y) ==
    IF x = 0 THEN y
    ELSE IF y = 0 THEN x
    ELSE (IF x % 2 # y % 2 THEN 1 ELSE 0) + 2 * bxor(x \div 2, y \div 2)

\* reversed(list_)
Reverse(s) == [j \in 1..Len(s) |-> s[Len(s) + 1 - j]]

\* (0 for _ in range(k))
Zeros(k) == [j \in 1..k |-> 0]

\* ------------------------------------------------------------------- Bits

RECURSIVE how_many_bytes_loop_ge(_, _, _)
\* Mutant of how_many_bytes_loop: value >= limit in place of value > limit.
how_many_bytes_loop_ge(value, size, l) ==
    IF value >= (2 ^ size) - 1
    THEN how_many_bytes_loop_ge(shr(value, size), size, l + 1)
    ELSE l

RECURSIVE how_many_bytes_loop(_, _, _)
\* The while loop of Bits.how_many_bytes.
how_many_bytes_loop(value, size, l) ==
    IF value > (2 ^ size) - 1
    THEN how_many_bytes_loop(shr(value, size), size, l + 1)
    ELSE l

\* Bits.how_many_bytes(value, size)
how_many_bytes(value, size) == how_many_bytes_loop(value, size, 1)

\* bit_slice(n, i) of Bits.number_to_bits, with mask and offset as computed there.
bit_slice(n, i, size) ==
    LET mask == (2 ^ size) - 1
        offset == i * size
    IN  shr(band(n, shl(mask, offset)), offset)

\* Bits.number_to_bits(n, size): the generator's elements, in order.
number_to_bits(n, size) ==
    [k \in 1..how_many_bytes(n, size) |-> bit_slice(n, k - 1, size)]

\* Bits.__new__(cls, n): the bytes object built from number_to_bits(n).
Bits(n) == number_to_bits(n, CHUNK)

RECURSIVE to_number_from(_, _)
to_number_from(self, i) ==
    IF i >= Len(self) THEN 0
    ELSE self[i + 1] * (2 ^ (8 * i)) + to_number_from(self, i + 1)

\* Bits.to_number(self)
to_number(self) == to_number_from(self, 0)

RECURSIVE byte_bits(_)
\* The inner "while value" loop of Bits.__iter__: the bits it yields.
byte_bits(value) ==
    IF value = 0 THEN <<>>
    ELSE <<band(value, 1)>> \o byte_bits(shr(value, 1))

\* Mutant of iter_byte: the lower bytes are not padded to CHUNK bits.
iter_byte_unpadded(self, byte_number) == byte_bits(self[byte_number + 1])

\* One pass of the for loop of Bits.__iter__ (byte_number counts from 0).
iter_byte(self, byte_number) ==
    LET yielded == byte_bits(self[byte_number + 1])
        count == Len(yielded)
        last_byte == Len(self) - 1
    IN  IF byte_number < last_byte
        THEN yielded \o Zeros(CHUNK - count)
        ELSE yielded

RECURSIVE iter_from(_, _)
iter_from(self, byte_number) ==
    IF byte_number >= Len(self) THEN <<>>
    ELSE iter_byte(self, byte_number) \o iter_from(self, byte_number + 1)

\* list(self) through Bits.__iter__
Bits_iter(self) ==
    IF self = <<0>> THEN <<0>> ELSE iter_from(self, 0)

\* Mutant of Bits_reversed: the list is yielded in forward order.
Bits_reversed_forward(self) == Bits_iter(self)

\* list(reversed(self)) through Bits.__reversed__
Bits_reversed(self) == Reverse(Bits_iter(self))

\* Bits.__lshift__(self, other)
Bits_lshift(self, other) == Bits(shl(to_number(self), to_number(other)))

\* Byte.upper_bound() for a class whose SIZE is size
upper_bound(size) == 2 ^ (size * CHUNK)

\* ------------------------------------------------------------- arithmetic

\* Mutant of fulladder: the carry-in does not reach the carry-out.
fulladder_carry_lost(a, b, cin) == <<bxor(bxor(a, b), cin), band(a, b)>>

\* fulladder(a, b, cin) = <<sum_, cout>>
fulladder(a, b, cin) ==
    <<bxor(bxor(a, b), cin), bor(band(a, b), band(cin, bxor(a, b)))>>

\* Element i (from 0) of zip_longest(..., fillvalue=0) for one operand.
fill(s, i) == IF i < Len(s) THEN s[i + 1] ELSE 0

\* Number of pairs zip_longest yields.
zip_longest_len(s, t) == IF Len(s) >= Len(t) THEN Len(s) ELSE Len(t)

RECURSIVE adder_loop(_, _, _, _, _)
\* The for loop of adder from index i on; yields <<acc, cout>> at its end.
adder_loop(nb, mb, i, acc, cin) ==
    IF i >= zip_longest_len(nb, mb) THEN <<acc, cin>>
    ELSE LET fa == fulladder(fill(nb, i), fill(mb, i), cin)
         IN  adder_loop(nb, mb, i + 1, bor(acc, shl(fa[1], i)), fa[2])

\* Mutant of adder: the final carry-out is not appended.
adder_carry_dropped(n, m) == adder_loop(Bits_iter(n), Bits_iter(m), 0, 0, 0)[1]

\* adder(n, m)
adder(n, m) ==
    LET nb == Bits_iter(n)
        mb == Bits_iter(m)
        end == adder_loop(nb, mb, 0, 0, 0)
    IN  bor(end[1], shl(end[2], (zip_longest_len(nb, mb) - 1) + 1))

RECURSIVE subtractor_loop(_, _, _, _, _)
\* The for loop of subtractor from index i on; yields acc at its end.
subtractor_loop(nb, mb, i, acc, cout) ==
    IF i >= zip_longest_len(nb, mb) THEN acc
    ELSE LET inverter == 1
             fa == fulladder(fill(nb, i), bxor(fill(mb, i), inverter), cout)
         IN  subtractor_loop(nb, mb, i + 1, bor(acc, shl(fa[1], i)), fa[2])

\* Mutant of subtractor: the carry is seeded with 0.
subtractor_seed0(n, m) == subtractor_loop(Bits_iter(n), Bits_iter(m), 0, 0, 0)

\* Mutant of subtractor: zip in place of zip_longest, stopping at the shorter operand.
subtractor_zip(n, m) ==
    LET nb == Bits_iter(n)
        mb == Bits_iter(m)
        short == IF Len(nb) <= Len(mb) THEN Len(nb) ELSE Len(mb)
    IN  subtractor_loop(SubSeq(nb, 1, short), SubSeq(mb, 1, short), 0, 0, 1)

\* subtractor(n, m)
subtractor(n, m) == subtractor_loop(Bits_iter(n), Bits_iter(m), 0, 0, 1)

\* Mutant of multiplier_step: n is added without the shift.
multiplier_step_unshifted(n, bit, shifter, acc) ==
    IF bit = 1 THEN Bits(adder(acc, n)) ELSE acc

\* The body of multiplier's for loop: the new acc.
multiplier_step(n, bit, shifter, acc) ==
    IF bit = 1 THEN Bits(adder(acc, Bits_lshift(n, Bits(shifter)))) ELSE acc

RECURSIVE multiplier_loop(_, _, _, _)
multiplier_loop(n, mb, shifter, acc) ==
    IF shifter >= Len(mb) THEN acc
    ELSE multiplier_loop(n, mb, shifter + 1,
                         multiplier_step(n, mb[shifter + 1], shifter, acc))

\* multiplier(n, m)
multiplier(n, m) == to_number(multiplier_loop(n, Bits_iter(m), 0, Bits(0)))

\* ------------------------------------------------------------------ state

VARIABLES
    pc,      \* "idle", "shift", "compare", "returned" or "raised"
    op,      \* the function called: "adder", "subtractor", "multiplier", "divider"
    x, y,    \* the integers the caller wraps: n = Bits(x), m = Bits(y)
    n, m,    \* the operands, as byte sequences
    todo,    \* divider: what reversed(n) has still to yield
    bit,     \* divider: the loop variable
    quo,     \* divider: quo
    rem,     \* divider: rem
    steps,   \* divider: loop passes completed
    result   \* the returned value: <<v>>, or <<quo, rem>> for divider; <<>> if none

vars == <<pc, op, x, y, n, m, todo, bit, quo, rem, steps, result>>

\* The operands the model draws.
Inputs ==
    (0..MaxN) \cup
    { upper_bound(s) + d : s \in {ByteSIZE, WordSIZE}, d \in (0 - MaxDelta)..MaxDelta }

Init ==
    /\ pc = "idle"
    /\ op = "none"
    /\ x = 0 /\ y = 0
    /\ n = <<>> /\ m = <<>>
    /\ todo = <<>>
    /\ bit = 0 /\ quo = 0 /\ rem = 0 /\ steps = 0
    /\ result = <<>>

\* adder(Bits(a), Bits(b)), from the call to the return.
CallAdder(a, b) ==
    /\ pc = "idle"
    /\ op' = "adder"
    /\ x' = a /\ y' = b
    /\ n' = Bits(a) /\ m' = Bits(b)
    /\ result' = <<adder(Bits(a), Bits(b))>>
    /\ pc' = "returned"
    /\ UNCHANGED <<todo, bit, quo, rem, steps>>

\* subtractor(Bits(a), Bits(b)), from the call to the return.
CallSubtractor(a, b) ==
    /\ pc = "idle"
    /\ op' = "subtractor"
    /\ x' = a /\ y' = b
    /\ n' = Bits(a) /\ m' = Bits(b)
    /\ result' = <<subtractor(Bits(a), Bits(b))>>
    /\ pc' = "returned"
    /\ UNCHANGED <<todo, bit, quo, rem, steps>>

\* multiplier(Bits(a), Bits(b)), from the call to the return.
CallMultiplier(a, b) ==
    /\ pc = "idle"
    /\ IF b = 0 THEN TRUE ELSE a <= ((2 ^ MaxProductBits) - 1) \div b
    /\ op' = "multiplier"
    /\ x' = a /\ y' = b
    /\ n' = Bits(a) /\ m' = Bits(b)
    /\ result' = <<multiplier(Bits(a), Bits(b))>>
    /\ pc' = "returned"
    /\ UNCHANGED <<todo, bit, quo, rem, steps>>

\* Mutant of DividerCall: the zero check is left out.
DividerCall_unchecked(a, b) ==
    /\ pc = "idle"
    /\ op' = "divider"
    /\ x' = a /\ y' = b
    /\ n' = Bits(a) /\ m' = Bits(b)
    /\ pc' = "shift"
    /\ rem' = 0 /\ quo' = 0
    /\ todo' = Bits_reversed(Bits(a))
    /\ UNCHANGED <<bit, steps, result>>

\* divider(Bits(a), Bits(b)) up to the start of its loop.
DividerCall(a, b) ==
    /\ pc = "idle"
    /\ op' = "divider"
    /\ x' = a /\ y' = b
    /\ n' = Bits(a) /\ m' = Bits(b)
    /\ IF to_number(Bits(b)) = 0
       THEN /\ pc' = "raised"
            /\ UNCHANGED <<todo, quo, rem>>
       ELSE /\ pc' = "shift"
            /\ rem' = 0 /\ quo' = 0
            /\ todo' = Bits_reversed(Bits(a))
    /\ UNCHANGED <<bit, steps, result>>

\* The loop takes the next bit, shifts quo and rem and places the bit.
DividerShift ==
    /\ pc = "shift"
    /\ todo # <<>>
    /\ bit' = Head(todo)
    /\ todo' = Tail(todo)
    /\ quo' = shl(quo, 1)
    /\ rem' = IF Head(todo) # 0 THEN bxor(shl(rem, 1), shl(1, 0)) ELSE shl(rem, 1)
    /\ pc' = "compare"
    /\ UNCHANGED <<op, x, y, n, m, steps, result>>

\* Mutant of DividerCompare: rem > m in place of rem >= m.
DividerCompare_strict ==
    /\ pc = "compare"
    /\ IF rem > to_number(m)
       THEN /\ rem' = subtractor(Bits(rem), m)
            /\ quo' = bxor(quo, shl(1, 0))
       ELSE UNCHANGED <<rem, quo>>
    /\ steps' = steps + 1
    /\ pc' = "shift"
    /\ UNCHANGED <<op, x, y, n, m, todo, bit, result>>

\* The conditional subtraction that ends a loop pass.
DividerCompare ==
    /\ pc = "compare"
    /\ IF rem >= to_number(m)
       THEN /\ rem' = subtractor(Bits(rem), m)
            /\ quo' = bxor(quo, shl(1, 0))
       ELSE UNCHANGED <<rem, quo>>
    /\ steps' = steps + 1
    /\ pc' = "shift"
    /\ UNCHANGED <<op, x, y, n, m, todo, bit, result>>

\* reversed(n) is exhausted: return quo, rem.
DividerReturn ==
    /\ pc = "shift"
    /\ todo = <<>>
    /\ result' = <<quo, rem>>
    /\ pc' = "returned"
    /\ UNCHANGED <<op, x, y, n, m, todo, bit, quo, rem, steps>>

Next ==
    \/ \E a \in Inputs, b \in Inputs : CallAdder(a, b)
    \/ \E a \in Inputs, b \in Inputs : CallSubtractor(a, b)
    \/ \E a \in Inputs, b \in Inputs : CallMultiplier(a, b)
    \/ \E a \in Inputs, b \in Inputs : DividerCall(a, b)
    \/ DividerShift
    \/ DividerCompare
    \/ DividerReturn

Spec == Init /\ [][Next]_vars

\* ------------------------------------------------- arithmetic of the claims

RECURSIVE BitLength(_)
\* The number of binary digits of v: 0 for 0, else floor(log2(v)) + 1.
BitLength(v) == IF v = 0 THEN 0 ELSE 1 + BitLength(v \div 2)

\* Binary digit i (from 0) of v.
BitOf(v, i) == (v \div (2 ^ i)) % 2

Max(i, j) == IF i >= j THEN i ELSE j

\* ------------------------------------------------------------------ C1

\* C1: for n >= 0 and m > 0, divider(Bits(n), Bits(m)) returns (q, r) with
\* q * m + r = n and 0 <= r < m.
C1_DividerQuotientRemainder ==
    (op = "divider" /\ y > 0 /\ pc = "returned") =>
        /\ Len(result) = 2
        /\ result[1] * y + result[2] = x
        /\ 0 <= result[2]
        /\ result[2] < y

\* A division of a three-byte dividend that leaves a remainder.
C1_Witness ==
    /\ op = "divider" /\ pc = "returned"
    /\ Len(n) = 3 /\ y > 2
    /\ result[1] > 1 /\ result[2] > 0

\* ------------------------------------------------------------------ C2

\* C2: divider(Bits(n), Bits(0)) raises ZeroDivisionError for every n, before
\* any bit of n is taken: no loop pass runs and no pair is returned.
C2_ZeroDivisorRaises ==
    (op = "divider" /\ y = 0) =>
        /\ pc = "raised"
        /\ steps = 0
        /\ todo = <<>>
        /\ result = <<>>

\* A multi-byte dividend divided by zero.
C2_Witness ==
    /\ op = "divider" /\ y = 0 /\ pc = "raised"
    /\ Len(n) > 1

\* ------------------------------------------------------------------ C3

\* C3: adder(Bits(a), Bits(b)) = a + b for all a, b >= 0, the final carry
\* included as one more high bit.
C3_AdderSum ==
    (op = "adder" /\ pc = "returned") => result = <<x + y>>

\* Operands of different lengths whose sum is one bit longer than the longer
\* of them, and needs one more byte (255 + 1).
C3_Witness ==
    /\ op = "adder" /\ pc = "returned"
    /\ BitLength(x) # BitLength(y) /\ y > 0
    /\ BitLength(result[1]) = Max(BitLength(x), BitLength(y)) + 1
    /\ Len(Bits(result[1])) > Len(n)

\* ------------------------------------------------------------------ C4

\* C4: for a >= b >= 0, subtractor(Bits(a), Bits(b)) = a - b, and adding b
\* back gives a.
C4_SubtractorDifference ==
    (op = "subtractor" /\ pc = "returned" /\ x >= y) =>
        /\ result = <<x - y>>
        /\ result[1] + y = x

\* A borrow across a byte boundary from a shorter subtrahend (256 - 1).
C4_Witness ==
    /\ op = "subtractor" /\ pc = "returned"
    /\ x > y /\ y > 0
    /\ Len(n) > Len(m)
    /\ Len(Bits(result[1])) < Len(n)

\* ------------------------------------------------------------------ C5

\* C5: multiplier(Bits(a), Bits(b)) = a * b for all a, b >= 0; 0 when either
\* operand is 0, and a when b = 1.
C5_MultiplierProduct ==
    (op = "multiplier" /\ pc = "returned") =>
        /\ result = <<x * y>>
        /\ (x = 0 \/ y = 0) => result = <<0>>
        /\ y = 1 => result = <<x>>

\* A product of a multi-byte operand by one with several bits set.
C5_Witness ==
    /\ op = "multiplier" /\ pc = "returned"
    /\ Len(n) > 1 /\ y > 2 /\ y % 2 = 1
    /\ Len(Bits(result[1])) > Len(n)

\* ------------------------------------------------------------------ C6

\* s is the canonical little-endian byte encoding of v.
CanonicalEncoding(s, v) ==
    /\ Len(s) >= 1
    /\ \A i \in 1..Len(s) : s[i] \in 0..((2 ^ CHUNK) - 1)
    /\ \A i \in 1..Len(s) : s[i] = (v \div (2 ^ (CHUNK * (i - 1)))) % (2 ^ CHUNK)
    /\ v = 0 => s = <<0>>
    /\ v > 0 => s[Len(s)] # 0
    /\ to_number(s) = v

\* C6: Bits(n) is the canonical little-endian encoding of n: at least one
\* byte, Bits(0) the single byte 0, a non-zero last byte for n > 0, and
\* Bits(n).to_number() = n.
C6_CanonicalRoundTrip ==
    pc # "idle" => CanonicalEncoding(n, x) /\ CanonicalEncoding(m, y)

\* Operands on both sides of a byte boundary: 255 in one byte, 65536 in three.
C6_Witness ==
    /\ pc # "idle"
    /\ x = (2 ^ CHUNK) - 1 /\ Len(n) = 1
    /\ Len(m) = 3 /\ m[1] = 0 /\ m[2] = 0

\* ------------------------------------------------------------------ C7

\* The bit view of s, the encoding of v, is the binary expansion of v.
BitView(s, v) ==
    LET bs == Bits_iter(s)
    IN  /\ v = 0 => bs = <<0>>
        /\ v > 0 =>
            /\ Len(bs) = BitLength(v)
            /\ \A i \in 1..Len(bs) : bs[i] = BitOf(v, i - 1)
            /\ \A k \in 0..(Len(s) - 2) : Len(iter_byte(s, k)) = CHUNK
            /\ Len(iter_byte(s, Len(s) - 1)) = BitLength(s[Len(s)])

\* C7: iterating Bits(n) yields the binary digits of n, least significant
\* first, with no extra high zero bits: BitLength(n) of them for n > 0
\* (8 per byte below the last, the last byte's significant bits only), and
\* the single bit 0 for n = 0.
C7_BitView ==
    pc # "idle" => BitView(n, x) /\ BitView(m, y)

\* An operand whose low byte must be padded up to eight bits, and zero.
C7_Witness ==
    /\ pc # "idle"
    /\ Len(n) > 1 /\ n[1] < 4
    /\ y = 0

\* ------------------------------------------------------------------ C8

\* C8: in divider with m > 0, 0 <= rem < 2 * m.to_number() holds after the
\* shift and the placing of the bit, before the conditional subtraction, and
\* 0 <= rem < m.to_number() holds after it (and before the first pass): the
\* subtraction never has rem < m.
C8_RemainderBounds ==
    (op = "divider" /\ y > 0) =>
        /\ pc = "compare" => 0 <= rem /\ rem < 2 * to_number(m)
        /\ pc \in {"shift", "returned"} => 0 <= rem /\ rem < to_number(m)

\* Late in a long division, a remainder about to be reduced.
C8_Witness ==
    /\ op = "divider" /\ pc = "compare"
    /\ steps > CHUNK
    /\ to_number(m) > 2
    /\ rem > to_number(m)

\* ------------------------------------------------------------------ C9

\* The loop passes of divider on a dividend of value v.
DividerPasses(v) == IF v = 0 THEN 1 ELSE BitLength(v)

\* The divider loop takes the bits of x one per pass, highest first.
C9_OneBitPerPass ==
    (op = "divider" /\ y > 0) =>
        /\ pc = "shift" => steps + Len(todo) = DividerPasses(x)
        /\ pc = "compare" =>
            /\ steps + 1 + Len(todo) = DividerPasses(x)
            /\ bit = BitOf(x, Len(todo))
        /\ pc = "returned" => steps = DividerPasses(x) /\ todo = <<>>

\* What is left of a divider call: two steps per bit still to take, and the return.
C9_Measure ==
    IF pc = "shift" THEN 2 * Len(todo) + 2
    ELSE IF pc = "compare" THEN 2 * Len(todo) + 3
    ELSE 0

\* Between passes a divider call can always go on: to the next bit, or to
\* its return when reversed(n) is exhausted.
C9_NeverStuck ==
    (op = "divider" /\ pc = "shift") => ENABLED (DividerShift \/ DividerReturn)

\* Every step of a divider call brings it nearer to its return.
C9_Progress ==
    (op = "divider" /\ pc \in {"shift", "compare"}) =>
        /\ C9_Measure' < C9_Measure
        /\ pc' \in {"shift", "compare", "returned"}

\* C9 (amended): for n >= 0 and m > 0, divider always terminates, after
\* exactly one pass per element of n's bit sequence, highest first: that is
\* BitLength(n) passes for n > 0 and one pass for n = 0.
C9_TerminatesAfterBitSequence ==
    /\ []C9_OneBitPerPass
    /\ []C9_NeverStuck
    /\ [][C9_Progress]_vars

\* C9 (as stated): divider returns after exactly bit-length(n) passes.
C9_AsStated ==
    (op = "divider" /\ pc = "returned") => steps = BitLength(x)

\* A division that has run all seventeen passes of a three-byte dividend.
C9_Witness ==
    /\ op = "divider" /\ pc = "returned"
    /\ Len(n) = 3
    /\ steps = 2 * CHUNK + 1

\* ------------------------------------------------------------------ C10

\* C10: for n < m, subtractor(Bits(n), Bits(m)) returns (n - m) mod 2^L, L
\* the length of the longer operand's bit sequence, without any error.
C10_SubtractorWraps ==
    (op = "subtractor" /\ x < y) =>
        LET L == Max(Len(Bits_iter(n)), Len(Bits_iter(m)))
        IN  /\ pc = "returned"
            /\ result = <<(x - y) % (2 ^ L)>>
            /\ 0 <= result[1]
            /\ result[1] < 2 ^ L

\* A small minuend under a multi-byte subtrahend (1 - 256 wraps to 257).
C10_Witness ==
    /\ op = "subtractor" /\ pc = "returned"
    /\ 0 < x /\ x < y
    /\ Len(m) > Len(n)
    /\ result[1] > y

====
